---- MODULE Spec2Model ----
(***************************************************************************)
(* Model of package psi (pault.ag/go/psi): Config.Check, the control line  *)
(* written to /proc/pressure/<resource>, and the poll/callback loop of     *)
(* Monitor.  Two revisions of Monitor are in the source tree: the one in   *)
(* psi.go, which has no stop sentinel, and the documented one, which       *)
(* declares ErrStopMonitoring.  Both are modelled; impl selects which one  *)
(* a run executes.                                                         *)
(* Spec is one call of Monitor, with calls of Config.Explain by its        *)
(* caller; FairSpec adds that no step of Monitor is put off forever;       *)
(* TwoSpec is two calls of Monitor interleaved in one process.             *)
(*                                                                         *)
(* A time.Duration is an int64 count of nanoseconds.  The largest bound    *)
(* of Check, 10s = 10^10 ns, does not fit TLC's 32-bit integers,    *)
(* so a duration d is written as the pair [s, ns] with                     *)
(* d = s * 10^9 + ns and 0 <= ns < 10^9; every operation on durations      *)
(* below is defined on that pair and computes what the int64 operation     *)
(* computes.                                                               *)
(***************************************************************************)
EXTENDS Integers, Sequences, FiniteSets, TLC

VARIABLES
    impl,      \* which Monitor runs: "psi.go" or "part_000"
    config,    \* the Config passed to Monitor
    pc,        \* the statement Monitor is at: check, open, write, poll, cb, done
    log,       \* the calls Monitor has made, in order, each with its error
    fdOpen,    \* the handle: "none", "open" or "closed"
    closes,    \* number of fd.Close() calls
    openPath,  \* the path handed to os.OpenFile
    payload,   \* the bytes handed to fd.Write
    written,   \* the bytes fd.Write passed on to the kernel
    pollRes,   \* what the last unix.Poll returned
    result,    \* the error Monitor returned, once pc = "done"
    fdNum,     \* the descriptor number os.OpenFile got, 0 before that
    fdTable,   \* the descriptor numbers open in the process
    explains,  \* what the calls of config.Explain() returned, in order
    cur,       \* the session the variables above belong to: 1 or 2
    peer       \* the variables of the other session of the process

\* the variables of one Monitor call
local == <<impl, config, pc, log, fdOpen, closes, openPath, payload,
           written, pollRes, result, fdNum>>

vars == <<impl, config, pc, log, fdOpen, closes, openPath, payload,
          written, pollRes, result, fdNum, fdTable, explains, cur, peer>>

\* Largest number of readiness waits a run of the model performs.
MaxPolls == 2

\* Largest number of calls of Explain in a run of the model.
MaxExplains == 2

----------------------------------------------------------------------------
\* time.Duration

Dur(s, ns) == [s |-> s, ns |-> ns]

Millis(n) == Dur(n \div 1000, (n % 1000) * 1000000)

Seconds(n) == Dur(n, 0)

\* d < e on int64 nanoseconds
DurLT(d, e) == \/ d.s < e.s
               \/ d.s = e.s /\ d.ns < e.ns

\* d > e on int64 nanoseconds
DurGT(d, e) == DurLT(e, d)

\* Microseconds rounding to the nearest microsecond instead of truncating
MicrosecondsRounded(d) ==
    LET fl == d.s * 1000000 + (d.ns \div 1000)
    IN  IF d.ns % 1000 >= 500 THEN fl + 1 ELSE fl

\* Duration.Microseconds: int64(d) / 1e3, Go's division truncating toward
\* zero.
Microseconds(d) ==
    LET fl == d.s * 1000000 + (d.ns \div 1000)
    IN  IF d.s < 0 /\ d.ns % 1000 # 0 THEN fl + 1 ELSE fl

----------------------------------------------------------------------------
\* Errors.  A Go error value is compared with == by identity; id stands for
\* that identity, msg for Error(), wraps for what Unwrap() returns.

nil == [id |-> "nil", msg |-> "", wraps |-> "nil"]

Err(id, msg) == [id |-> id, msg |-> msg, wraps |-> "nil"]

ErrStopMonitoring == Err("ErrStopMonitoring", "psi: stop it")

\* golang.org/x/sys/unix and os errors the kernel interface can produce.
ENOENT == Err("ENOENT", "no such file or directory")

EACCES == Err("EACCES", "permission denied")

EINVAL == Err("EINVAL", "invalid argument")

EINTR == Err("EINTR", "interrupted system call")

ErrShortWrite == Err("io.ErrShortWrite", "short write")

\* Errors a caller's callback may return besides nil and the sentinel: an
\* unrelated error, a distinct value with the sentinel's message, and a
\* value wrapping the sentinel.
errCallback == Err("errCallback", "callback failed")

errSameMessage == Err("errSameMessage", "psi: stop it")

errWrapsStop == [id |-> "errWrapsStop", msg |-> "cb: psi: stop it",
                 wraps |-> "ErrStopMonitoring"]

----------------------------------------------------------------------------
\* Config

ResourceCPU == "cpu"

ResourceIO == "io"

ResourceMemory == "memory"

StallTypeFull == "full"

StallTypeSome == "some"

\* Resource and StallType are string types: any string is a value.  "irq"
\* is a pressure file of recent kernels that the package does not declare,
\* "gpu" one that no kernel has.
Resources == {ResourceCPU, ResourceIO, ResourceMemory, "irq", "gpu"}

StallTypes == {StallTypeSome, StallTypeFull, "half"}

\* Window durations around the two bounds of Check, one of them with a
\* sub-microsecond part.
WindowDurations ==
    { Millis(499), Dur(0, 499999999), Millis(500), Dur(0, 500000999),
      Seconds(1), Seconds(10), Dur(10, 1), Seconds(11) }

\* Stall window durations around the two bounds of Check, among them the
\* zero value, a negative one and one with a sub-microsecond part.
StallWindowDurations ==
    { Dur(-1, 999999999), Seconds(0), Dur(0, 49999999), Millis(50),
      Dur(0, 100000999), Millis(100), Seconds(1), Dur(1, 1) }

Configs ==
    [Resource : Resources, Type : StallTypes,
     StallWindowDuration : StallWindowDurations,
     WindowDuration : WindowDurations]

\* Check refusing a Resource or a Type that is not one of the declared ones
CheckClosedEnums(c) ==
    IF c.Resource \notin {ResourceCPU, ResourceIO, ResourceMemory}
    THEN Err("Check.5", "Unknown Resource")
    ELSE IF c.Type \notin {StallTypeSome, StallTypeFull}
    THEN Err("Check.6", "Unknown Type")
    ELSE IF DurLT(c.WindowDuration, Millis(500))
    THEN Err("Check.1", "Minmum WindowDuration is 500ms")
    ELSE IF DurGT(c.WindowDuration, Seconds(10))
    THEN Err("Check.2", "Maximum WindowDuration is 10s")
    ELSE IF DurLT(c.StallWindowDuration, Millis(50))
    THEN Err("Check.3", "Minmum StallWindowDuration is 50ms")
    ELSE IF DurGT(c.StallWindowDuration, Seconds(1))
    THEN Err("Check.4", "Maximum StallWindowDuration is 1s")
    ELSE nil

\* Check with the lower bounds exclusive
CheckExclusive(c) ==
    IF ~DurGT(c.WindowDuration, Millis(500))
    THEN Err("Check.1", "Minmum WindowDuration is 500ms")
    ELSE IF DurGT(c.WindowDuration, Seconds(10))
    THEN Err("Check.2", "Maximum WindowDuration is 10s")
    ELSE IF ~DurGT(c.StallWindowDuration, Millis(50))
    THEN Err("Check.3", "Minmum StallWindowDuration is 50ms")
    ELSE IF DurGT(c.StallWindowDuration, Seconds(1))
    THEN Err("Check.4", "Maximum StallWindowDuration is 1s")
    ELSE nil

\* Check with the stall window tested before the window
CheckStallFirst(c) ==
    IF DurLT(c.StallWindowDuration, Millis(50))
    THEN Err("Check.3", "Minmum StallWindowDuration is 50ms")
    ELSE IF DurGT(c.StallWindowDuration, Seconds(1))
    THEN Err("Check.4", "Maximum StallWindowDuration is 1s")
    ELSE IF DurLT(c.WindowDuration, Millis(500))
    THEN Err("Check.1", "Minmum WindowDuration is 500ms")
    ELSE IF DurGT(c.WindowDuration, Seconds(10))
    THEN Err("Check.2", "Maximum WindowDuration is 10s")
    ELSE nil

\* Config.Check
Check(c) ==
    IF DurLT(c.WindowDuration, Millis(500))
    THEN Err("Check.1", "Minmum WindowDuration is 500ms")
    ELSE IF DurGT(c.WindowDuration, Seconds(10))
    THEN Err("Check.2", "Maximum WindowDuration is 10s")
    ELSE IF DurLT(c.StallWindowDuration, Millis(50))
    THEN Err("Check.3", "Minmum StallWindowDuration is 50ms")
    ELSE IF DurGT(c.StallWindowDuration, Seconds(1))
    THEN Err("Check.4", "Maximum StallWindowDuration is 1s")
    ELSE nil

----------------------------------------------------------------------------
\* fmt: a formatted string is the sequence of its bytes, each written as a
\* one-character string, the zero byte as NUL.

NUL == "\\x00"

Digits == <<"0", "1", "2", "3", "4", "5", "6", "7", "8", "9">>

\* the bytes of the strings that occur as Type values
Bytes(str) ==
    CASE str = "some" -> <<"s", "o", "m", "e">>
      [] str = "full" -> <<"f", "u", "l", "l">>
      [] str = "half" -> <<"h", "a", "l", "f">>
      [] OTHER -> <<>>

RECURSIVE FormatNat(_)
FormatNat(n) ==
    IF n < 10 THEN <<Digits[n + 1]>>
    ELSE FormatNat(n \div 10) \o <<Digits[(n % 10) + 1]>>

\* the verb %d applied to an int64
FormatInt(n) == IF n < 0 THEN <<"-">> \o FormatNat(0 - n) ELSE FormatNat(n)

\* fmt.Fprintf(fd, "%s %d %d\x00", config.Type, ...Microseconds(),
\* ...Microseconds()): the bytes handed to fd.Write
ControlLine(c) ==
    Bytes(c.Type) \o <<" ">>
        \o FormatInt(Microseconds(c.StallWindowDuration)) \o <<" ">>
        \o FormatInt(Microseconds(c.WindowDuration)) \o <<NUL>>

\* |d| of a duration d
AbsDur(d) ==
    IF d.s >= 0 THEN d
    ELSE IF d.ns = 0 THEN Dur(0 - d.s, 0)
    ELSE Dur(0 - d.s - 1, 1000000000 - d.ns)

\* the last prec decimal digits of v, zero-padded on the left
RECURSIVE PadDigits(_, _)
PadDigits(v, prec) ==
    IF prec = 0 THEN <<>>
    ELSE PadDigits(v \div 10, prec - 1) \o <<Digits[(v % 10) + 1]>>

RECURSIVE StripZeros(_)
StripZeros(ds) ==
    IF ds # <<>> /\ ds[Len(ds)] = "0"
    THEN StripZeros(SubSeq(ds, 1, Len(ds) - 1))
    ELSE ds

\* time's fmtFrac: the fraction v / 10^prec without trailing zeros, with
\* its decimal point, or nothing when it is zero
FmtFrac(v, prec) ==
    LET ds == StripZeros(PadDigits(v, prec))
    IN  IF ds = <<>> THEN <<>> ELSE <<".">> \o ds

\* Duration.String of a duration u >= 0
StringAbs(u) ==
    IF u.s = 0
    THEN IF u.ns = 0 THEN <<"0", "s">>
         ELSE IF u.ns < 1000 THEN FormatNat(u.ns) \o <<"n", "s">>
         ELSE IF u.ns < 1000000
         THEN FormatNat(u.ns \div 1000) \o FmtFrac(u.ns % 1000, 3)
                  \o <<"\\u00b5", "s">>
         ELSE FormatNat(u.ns \div 1000000) \o FmtFrac(u.ns % 1000000, 6)
                  \o <<"m", "s">>
    ELSE LET sec == FormatNat(u.s % 60) \o FmtFrac(u.ns, 9) \o <<"s">>
             m == u.s \div 60
         IN  IF m = 0 THEN sec
             ELSE IF m \div 60 = 0
             THEN FormatNat(m % 60) \o <<"m">> \o sec
             ELSE FormatNat(m \div 60) \o <<"h">>
                      \o FormatNat(m % 60) \o <<"m">> \o sec

\* Duration.String
String(d) ==
    IF d.s < 0 THEN <<"-">> \o StringAbs(AbsDur(d)) ELSE StringAbs(d)

\* Explain without the case for StallTypeFull
ExplainNoFull(c) ==
    LET name == CASE c.Type = StallTypeSome -> "at least one"
                  [] OTHER -> "UNKNOWN"
    IN  <<name, " of the tasks in the queue are waiting for ", c.Resource,
          " for longer than ">> \o String(c.StallWindowDuration)
            \o <<" measured within a ">> \o String(c.WindowDuration)
            \o <<" time window\n">>

\* Config.Explain: the pieces of text fmt.Sprintf puts one after the other,
\* the two durations byte by byte
Explain(c) ==
    LET name == CASE c.Type = StallTypeSome -> "at least one"
                  [] c.Type = StallTypeFull -> "all of"
                  [] OTHER -> "UNKNOWN"
    IN  <<name, " of the tasks in the queue are waiting for ", c.Resource,
          " for longer than ">> \o String(c.StallWindowDuration)
            \o <<" measured within a ">> \o String(c.WindowDuration)
            \o <<" time window\n">>

\* fmt.Sprintf("/proc/pressure/%s", config.Resource)
PressurePath(c) == <<"/proc/pressure/", c.Resource>>

\* The files the kernel has under /proc/pressure.
KernelFiles == { <<"/proc/pressure/", "cpu">>, <<"/proc/pressure/", "io">>,
                 <<"/proc/pressure/", "memory">>,
                 <<"/proc/pressure/", "irq">> }

----------------------------------------------------------------------------
\* What the world outside Monitor can answer.

\* os.OpenFile(path, O_RDWR|O_NONBLOCK, 0): a path the kernel does not have
\* cannot be opened; one it has may still be refused.
OpenOutcomes(path) == IF path \in KernelFiles THEN {nil, EACCES} ELSE {ENOENT}

\* fd.Write(b), reached through fmt.Fprintf: all of b is written, or the
\* kernel rejects it, or only a prefix is written, which os.File.Write
\* reports as io.ErrShortWrite.
WriteOutcomes(b) ==
    { [n |-> Len(b), err |-> nil], [n |-> 0, err |-> EINVAL],
      [n |-> Len(b) - 1, err |-> ErrShortWrite] }

\* unix.Poll on one descriptor with events EPOLLPRI and no timeout: an
\* error, or a count of ready descriptors with the flags the kernel set.
PollOutcomes ==
    { [n |-> -1, revents |-> "", err |-> EINTR],
      [n |-> 1, revents |-> "POLLPRI", err |-> nil],
      [n |-> 1, revents |-> "POLLERR", err |-> nil],
      [n |-> 0, revents |-> "", err |-> nil] }

NoPoll == [n |-> 0, revents |-> "", err |-> nil]

\* open(2) returns the lowest descriptor number not open in the process;
\* 0, 1 and 2 are the standard streams.
LowestFree(table) == CHOOSE n \in 3..(3 + Cardinality(table)) :
                        /\ n \notin table
                        /\ \A m \in 3..(n - 1) : m \in table

\* What a callback can return.  psi.go declares no sentinel, so a callback
\* handed to its Monitor has no such value to return.
CallbackResults(i) ==
    IF i = "part_000"
    THEN {nil, ErrStopMonitoring, errCallback, errSameMessage, errWrapsStop}
    ELSE {nil, errCallback, errSameMessage}

Impls == {"psi.go", "part_000"}

\* one call made by Monitor and the error it returned
Call(op, err) == [op |-> op, err |-> err]

\* number of calls of op in the sequence lg
Count(lg, op) == Cardinality({i \in DOMAIN lg : lg[i].op = op})

----------------------------------------------------------------------------
\* Monitor

\* the variables of a Monitor call that has just been entered
Entered(i, c) ==
    /\ impl = i
    /\ config = c
    /\ pc = "check"
    /\ log = <<>>
    /\ fdOpen = "none"
    /\ closes = 0
    /\ openPath = <<>>
    /\ payload = <<>>
    /\ written = <<>>
    /\ pollRes = NoPoll
    /\ result = nil
    /\ fdNum = 0

\* the value of peer in a process that runs one session only
NoPeer == [pc |-> "absent"]

\* one call of Monitor in a process that makes no other
Init ==
    /\ \E i \in Impls, c \in Configs : Entered(i, c)
    /\ fdTable = {}
    /\ explains = <<>>
    /\ cur = 1
    /\ peer = NoPeer

\* the sentinel recognised as errors.Is does, through Unwrap
IsStopErrorsIs(err) ==
    err.id = ErrStopMonitoring.id \/ err.wraps = ErrStopMonitoring.id

\* the sentinel recognised by its message instead of its identity
IsStopByMessage(err) == err.msg = ErrStopMonitoring.msg

\* err == ErrStopMonitoring on two error interface values
IsStop(err) == err.id = ErrStopMonitoring.id

\* return err before the defer statement has been reached
ReturnEarly(err, lg) ==
    /\ result' = err
    /\ pc' = "done"
    /\ log' = lg
    /\ UNCHANGED <<fdOpen, closes, fdNum, fdTable>>

\* a return that leaves the handle open
ReturnNoClose(err, lg) ==
    /\ result' = err
    /\ pc' = "done"
    /\ log' = lg
    /\ UNCHANGED <<fdOpen, closes, fdNum, fdTable>>

\* the handle kept in one package-level variable: the deferred call closes
\* the descriptor opened last in the process
ReturnSharedHandle(err, lg) ==
    /\ result' = err
    /\ pc' = "done"
    /\ fdOpen' = "closed"
    /\ closes' = closes + 1
    /\ fdTable' = {n \in fdTable : \E m \in fdTable : m > n}
    /\ log' = Append(lg, Call("close", nil))
    /\ UNCHANGED fdNum

\* return err once defer fd.Close() is registered: the deferred call runs
\* as Monitor returns
Return(err, lg) ==
    /\ result' = err
    /\ pc' = "done"
    /\ fdOpen' = "closed"
    /\ closes' = closes + 1
    /\ fdTable' = fdTable \ {fdNum}
    /\ log' = Append(lg, Call("close", nil))
    /\ UNCHANGED fdNum

\* Monitor going on to the open whatever Check returned
MonitorCheckIgnored ==
    /\ pc = "check"
    /\ pc' = "open"
    /\ log' = Append(log, Call("check", Check(config)))
    /\ UNCHANGED <<explains, cur, peer, impl, config, fdOpen, closes, result,
                   openPath, payload, written, pollRes, fdNum, fdTable>>

\* if err := config.Check(); err != nil { return err }
MonitorCheck ==
    /\ pc = "check"
    /\ LET err == Check(config)
       IN  IF err # nil
           THEN ReturnEarly(err, Append(log, Call("check", err)))
           ELSE /\ pc' = "open"
                /\ log' = Append(log, Call("check", err))
                /\ UNCHANGED <<fdOpen, closes, result, fdNum, fdTable>>
    /\ UNCHANGED <<explains, cur, peer, impl, config, openPath, payload, written, pollRes>>

\* a failed open tried again instead of returned
MonitorOpenRetry ==
    /\ pc = "open"
    /\ Count(log, "open") < 2
    /\ openPath' = PressurePath(config)
    /\ \E err \in OpenOutcomes(PressurePath(config)) :
          /\ fdOpen' = (IF err = nil THEN "open" ELSE "none")
          /\ fdNum' = (IF err = nil THEN LowestFree(fdTable) ELSE fdNum)
          /\ fdTable' = (IF err = nil THEN fdTable \cup {LowestFree(fdTable)}
                         ELSE fdTable)
          /\ pc' = (IF err = nil THEN "write" ELSE "open")
          /\ log' = Append(log, Call("open", err))
          /\ UNCHANGED <<closes, result>>
    /\ UNCHANGED <<explains, cur, peer, impl, config, payload, written,
                   pollRes>>

\* Monitor going on to the write whatever os.OpenFile returned
MonitorOpenIgnored ==
    /\ pc = "open"
    /\ openPath' = PressurePath(config)
    /\ \E err \in OpenOutcomes(PressurePath(config)) :
          /\ fdOpen' = (IF err = nil THEN "open" ELSE "none")
          /\ fdNum' = (IF err = nil THEN LowestFree(fdTable) ELSE fdNum)
          /\ fdTable' = (IF err = nil THEN fdTable \cup {LowestFree(fdTable)}
                         ELSE fdTable)
          /\ pc' = "write"
          /\ log' = Append(log, Call("open", err))
          /\ UNCHANGED <<closes, result>>
    /\ UNCHANGED <<explains, cur, peer, impl, config, payload, written, pollRes>>

\* fd, err := os.OpenFile(...); if err != nil { return err };
\* defer fd.Close()
MonitorOpen ==
    /\ pc = "open"
    /\ openPath' = PressurePath(config)
    /\ \E err \in OpenOutcomes(PressurePath(config)) :
          IF err # nil
          THEN ReturnEarly(err, Append(log, Call("open", err)))
          ELSE /\ fdOpen' = "open"
               /\ fdNum' = LowestFree(fdTable)
               /\ fdTable' = fdTable \cup {LowestFree(fdTable)}
               /\ pc' = "write"
               /\ log' = Append(log, Call("open", err))
               /\ UNCHANGED <<closes, result>>
    /\ UNCHANGED <<explains, cur, peer, impl, config, payload, written, pollRes>>

\* Monitor entering the loop whatever fmt.Fprintf returned
MonitorWriteUnchecked ==
    /\ pc = "write"
    /\ payload' = ControlLine(config)
    /\ \E w \in WriteOutcomes(ControlLine(config)) :
          /\ written' = SubSeq(ControlLine(config), 1, w.n)
          /\ pc' = "poll"
          /\ log' = Append(log, Call("write", w.err))
          /\ UNCHANGED <<fdOpen, closes, result, fdNum, fdTable>>
    /\ UNCHANGED <<explains, cur, peer, impl, config, openPath, pollRes>>

\* _, err = fmt.Fprintf(fd, ...); if err != nil { return err }
MonitorWrite ==
    /\ pc = "write"
    /\ payload' = ControlLine(config)
    /\ \E w \in WriteOutcomes(ControlLine(config)) :
          /\ written' = SubSeq(ControlLine(config), 1, w.n)
          /\ IF w.err # nil
             THEN Return(w.err, Append(log, Call("write", w.err)))
             ELSE /\ pc' = "poll"
                  /\ log' = Append(log, Call("write", w.err))
                  /\ UNCHANGED <<fdOpen, closes, result, fdNum, fdTable>>
    /\ UNCHANGED <<explains, cur, peer, impl, config, openPath, pollRes>>

\* a failed wait tried again instead of returned
MonitorPollRetry ==
    /\ pc = "poll"
    /\ Count(log, "poll") < MaxPolls
    /\ \E p \in PollOutcomes :
          /\ pollRes' = p
          /\ pc' = (IF p.err # nil THEN "poll" ELSE "cb")
          /\ log' = Append(log, Call("poll", p.err))
          /\ UNCHANGED <<fdOpen, closes, result, fdNum, fdTable>>
    /\ UNCHANGED <<explains, cur, peer, impl, config, openPath, payload,
                   written>>

\* the callback dispatched only when the wait reports a priority event
MonitorPollChecksEvents ==
    /\ pc = "poll"
    /\ Count(log, "poll") < MaxPolls
    /\ \E p \in PollOutcomes :
          /\ pollRes' = p
          /\ IF p.err # nil
             THEN Return(p.err, Append(log, Call("poll", p.err)))
             ELSE /\ pc' = (IF p.n > 0 /\ p.revents = "POLLPRI"
                            THEN "cb" ELSE "poll")
                  /\ log' = Append(log, Call("poll", p.err))
                  /\ UNCHANGED <<fdOpen, closes, result, fdNum, fdTable>>
    /\ UNCHANGED <<explains, cur, peer, impl, config, openPath, payload,
                   written>>

\* a wait with a timeout: Monitor returning nil when no descriptor is ready
MonitorPollTimeout ==
    /\ pc = "poll"
    /\ Count(log, "poll") < MaxPolls
    /\ \E p \in PollOutcomes :
          /\ pollRes' = p
          /\ IF p.err # nil \/ p.n = 0
             THEN Return(p.err, Append(log, Call("poll", p.err)))
             ELSE /\ pc' = "cb"
                  /\ log' = Append(log, Call("poll", p.err))
                  /\ UNCHANGED <<fdOpen, closes, result, fdNum, fdTable>>
    /\ UNCHANGED <<explains, cur, peer, impl, config, openPath, payload,
                   written>>

\* _, err := unix.Poll(...); if err != nil { return err }
MonitorPoll ==
    /\ pc = "poll"
    /\ Count(log, "poll") < MaxPolls
    /\ \E p \in PollOutcomes :
          /\ pollRes' = p
          /\ IF p.err # nil
             THEN Return(p.err, Append(log, Call("poll", p.err)))
             ELSE /\ pc' = "cb"
                  /\ log' = Append(log, Call("poll", p.err))
                  /\ UNCHANGED <<fdOpen, closes, result, fdNum, fdTable>>
    /\ UNCHANGED <<explains, cur, peer, impl, config, openPath, payload, written>>

\* the control line written again after each dispatch
MonitorCallbackRearm ==
    /\ pc = "cb"
    /\ impl = "part_000"
    /\ \E err \in CallbackResults(impl) :
          /\ IF err # nil
             THEN IF IsStop(err)
                  THEN Return(nil, Append(log, Call("cb", err)))
                  ELSE Return(err, Append(log, Call("cb", err)))
             ELSE /\ pc' = "write"
                  /\ log' = Append(log, Call("cb", err))
                  /\ UNCHANGED <<fdOpen, closes, result, fdNum, fdTable>>
    /\ UNCHANGED <<explains, cur, peer, impl, config, openPath, payload,
                   written, pollRes>>

\* the loop going on to the next wait when the callback returns the sentinel
MonitorCallbackContinue ==
    /\ pc = "cb"
    /\ impl = "part_000"
    /\ \E err \in CallbackResults(impl) :
          /\ IF err # nil /\ ~IsStop(err)
             THEN Return(err, Append(log, Call("cb", err)))
             ELSE /\ pc' = "poll"
                  /\ log' = Append(log, Call("cb", err))
                  /\ UNCHANGED <<fdOpen, closes, result, fdNum, fdTable>>
    /\ UNCHANGED <<explains, cur, peer, impl, config, openPath, payload, written, pollRes>>

\* if err := cb(); err != nil { if err == ErrStopMonitoring { break };
\* return err } ... return nil
MonitorCallback ==
    /\ pc = "cb"
    /\ impl = "part_000"
    /\ \E err \in CallbackResults(impl) :
          /\ IF err # nil
             THEN IF IsStop(err)
                  THEN Return(nil, Append(log, Call("cb", err)))
                  ELSE Return(err, Append(log, Call("cb", err)))
             ELSE /\ pc' = "poll"
                  /\ log' = Append(log, Call("cb", err))
                  /\ UNCHANGED <<fdOpen, closes, result, fdNum, fdTable>>
    /\ UNCHANGED <<explains, cur, peer, impl, config, openPath, payload, written, pollRes>>

\* the callback's error returned wrapped in a new error
MonitorCallbackPsiWrapped ==
    /\ pc = "cb"
    /\ impl = "psi.go"
    /\ \E err \in CallbackResults(impl) :
          /\ IF err # nil
             THEN Return([id |-> "wrapped", msg |-> "psi: callback",
                          wraps |-> err.id],
                         Append(log, Call("cb", err)))
             ELSE /\ pc' = "poll"
                  /\ log' = Append(log, Call("cb", err))
                  /\ UNCHANGED <<fdOpen, closes, result, fdNum, fdTable>>
    /\ UNCHANGED <<explains, cur, peer, impl, config, openPath, payload, written, pollRes>>

\* psi.go: if err := cb(); err != nil { return err }
MonitorCallbackPsi ==
    /\ pc = "cb"
    /\ impl = "psi.go"
    /\ \E err \in CallbackResults(impl) :
          /\ IF err # nil
             THEN Return(err, Append(log, Call("cb", err)))
             ELSE /\ pc' = "poll"
                  /\ log' = Append(log, Call("cb", err))
                  /\ UNCHANGED <<fdOpen, closes, result, fdNum, fdTable>>
    /\ UNCHANGED <<explains, cur, peer, impl, config, openPath, payload, written, pollRes>>

\* a call of config.Explain() by the caller, at any moment
ConfigExplain ==
    /\ Len(explains) < MaxExplains
    /\ explains' = Append(explains, Explain(config))
    /\ UNCHANGED <<local, fdTable, cur, peer>>

Next ==
    \/ ConfigExplain
    \/ MonitorCheck
    \/ MonitorOpen
    \/ MonitorWrite
    \/ MonitorPoll
    \/ MonitorCallback
    \/ MonitorCallbackPsi

Spec == Init /\ [][Next]_vars

----------------------------------------------------------------------------
\* Two calls of Monitor in one process, each on a thread of its own.

\* the variables of the session that is taking steps, as one value
Here ==
    [impl |-> impl, config |-> config, pc |-> pc, log |-> log,
     fdOpen |-> fdOpen, closes |-> closes, openPath |-> openPath,
     payload |-> payload, written |-> written, pollRes |-> pollRes,
     result |-> result, fdNum |-> fdNum]

\* the variables of a Monitor call that has just been entered, as one value
EnteredValue(i, c) ==
    [impl |-> i, config |-> c, pc |-> "check", log |-> <<>>,
     fdOpen |-> "none", closes |-> 0, openPath |-> <<>>, payload |-> <<>>,
     written |-> <<>>, pollRes |-> NoPoll, result |-> nil, fdNum |-> 0]

\* the Configs of the two sessions: the same or different resources, one
\* Config that fails Check
TwoConfigs ==
    [Resource : {ResourceCPU, ResourceMemory}, Type : {StallTypeSome},
     StallWindowDuration : {Millis(100)},
     WindowDuration : {Millis(499), Seconds(1)}]

\* the scheduler takes the running session off and puts the other one on
Yield ==
    /\ peer # NoPeer
    /\ cur' = 3 - cur
    /\ peer' = Here
    /\ impl' = peer.impl
    /\ config' = peer.config
    /\ pc' = peer.pc
    /\ log' = peer.log
    /\ fdOpen' = peer.fdOpen
    /\ closes' = peer.closes
    /\ openPath' = peer.openPath
    /\ payload' = peer.payload
    /\ written' = peer.written
    /\ pollRes' = peer.pollRes
    /\ result' = peer.result
    /\ fdNum' = peer.fdNum
    /\ UNCHANGED <<fdTable, explains>>

TwoInit ==
    /\ \E i \in Impls, c \in TwoConfigs : Entered(i, c)
    /\ \E i \in Impls, c \in TwoConfigs : peer = EnteredValue(i, c)
    /\ fdTable = {}
    /\ explains = <<>>
    /\ cur = 1

TwoNext ==
    \/ Yield
    \/ MonitorCheck
    \/ MonitorOpen
    \/ MonitorWrite
    \/ MonitorPoll
    \/ MonitorCallback
    \/ MonitorCallbackPsi

TwoSpec == TwoInit /\ [][TwoNext]_vars

\* Monitor runs on its caller's thread, which goes on to its next statement,
\* and a readiness wait returns once the kernel has an event or an error
\* for it: no step of Monitor that can be taken is put off forever.
FairSpec ==
    /\ Spec
    /\ WF_vars(MonitorCheck)
    /\ WF_vars(MonitorOpen)
    /\ WF_vars(MonitorWrite)
    /\ WF_vars(MonitorPoll)
    /\ WF_vars(MonitorCallback)
    /\ WF_vars(MonitorCallbackPsi)

----------------------------------------------------------------------------
\* Reading the history of a run.

Last(sq) == sq[Len(sq)]

Range(sq) == {sq[i] : i \in DOMAIN sq}

Min(S) == CHOOSE m \in S : \A n \in S : m <= n

\* positions in the log of the calls of op
CallsOf(op) == {i \in DOMAIN log : log[i].op = op}

\* positions in the log of callback invocations that returned the sentinel
StopCalls == {i \in CallsOf("cb") : log[i].err = ErrStopMonitoring}

\* positions in the log of calls that returned an error other than the
\* sentinel
ErrorCalls == {i \in DOMAIN log : log[i].err # nil /\ i \notin StopCalls}

OpenSucceeded == \E i \in CallsOf("open") : log[i].err = nil

\* the log ends at position i but for the deferred close
EndsAt(i) == log = Append(SubSeq(log, 1, i), Call("close", nil))

\* floor(d / 1ms) and the remainder in nanoseconds
MsFloor(d) == d.s * 1000 + (d.ns \div 1000000)

SubMs(d) == d.ns % 1000000

AtLeastMs(d, m) == MsFloor(d) >= m

AtMostMs(d, m) == MsFloor(d) < m \/ (MsFloor(d) = m /\ SubMs(d) = 0)

WindowInRange(c) ==
    AtLeastMs(c.WindowDuration, 500) /\ AtMostMs(c.WindowDuration, 10000)

StallWindowInRange(c) ==
    AtLeastMs(c.StallWindowDuration, 50)
        /\ AtMostMs(c.StallWindowDuration, 1000)

WindowMessages ==
    {"Minmum WindowDuration is 500ms", "Maximum WindowDuration is 10s"}

StallWindowMessages ==
    {"Minmum StallWindowDuration is 50ms", "Maximum StallWindowDuration is 1s"}

\* the fields of the byte sequence b, separated by sep
RECURSIVE Split(_, _)
Split(b, sep) ==
    IF sep \notin Range(b) THEN <<b>>
    ELSE LET i == Min({j \in DOMAIN b : b[j] = sep})
         IN  <<SubSeq(b, 1, i - 1)>> \o Split(SubSeq(b, i + 1, Len(b)), sep)

IsDigits(ds) == ds # <<>> /\ \A i \in DOMAIN ds : ds[i] \in Range(Digits)

DigitValue(ch) == CHOOSE k \in 0..9 : Digits[k + 1] = ch

\* the number a sequence of decimal digits denotes
RECURSIVE ParseNat(_)
ParseNat(ds) ==
    IF ds = <<>> THEN 0
    ELSE 10 * ParseNat(SubSeq(ds, 1, Len(ds) - 1)) + DigitValue(Last(ds))

\* n is the duration d in nanoseconds divided by 1000, truncated
\* (d >= 0): n * 1000 <= d < (n + 1) * 1000
IsTruncatedMicros(n, d) ==
    /\ n \div 1000000 = d.s
    /\ (n % 1000000) * 1000 <= d.ns
    /\ d.ns < (n % 1000000) * 1000 + 1000

----------------------------------------------------------------------------
\* C1: Monitor returns nil only when the callback has returned the stop
\* sentinel; every other terminating run returns the first error met among
\* validation, open, control-line write, readiness wait and non-sentinel
\* callback error.
C1_NilOnlyOnStopElseFirstError ==
    pc = "done" =>
        /\ (result = nil) <=> (StopCalls # {})
        /\ result = nil => ErrorCalls = {}
        /\ result # nil =>
              /\ ErrorCalls # {}
              /\ result = log[Min(ErrorCalls)].err
              /\ log[Min(ErrorCalls)].op \in {"check", "open", "write", "poll", "cb"}

C1_Witness ==
    /\ pc = "done"
    /\ result = nil
    /\ StopCalls # {}
    /\ Count(log, "cb") = 2

\* C2: when the open succeeded the handle is closed exactly once by the time
\* Monitor returns, on every exit path, never twice and never left open;
\* when validation or the open failed no close happens.
C2_ClosedExactlyOnce ==
    /\ closes <= 1
    /\ Count(log, "close") = closes
    /\ closes = 1 => OpenSucceeded
    /\ pc = "done" =>
          /\ closes = (IF OpenSucceeded THEN 1 ELSE 0)
          /\ fdOpen = (IF OpenSucceeded THEN "closed" ELSE "none")
    /\ pc # "done" => fdOpen = (IF OpenSucceeded THEN "open" ELSE "none")

C2_Witness ==
    /\ pc = "done"
    /\ OpenSucceeded
    /\ Last(SubSeq(log, 1, Len(log) - 1)) = Call("poll", EINTR)
    /\ closes = 1
    /\ fdOpen = "closed"

\* C3: when the callback returns the stop sentinel on its k-th invocation,
\* Monitor returns nil after exactly k dispatches and makes no further wait
\* or dispatch.
C3_StopAfterKDispatches ==
    \A i \in StopCalls :
        LET k == Cardinality({j \in CallsOf("cb") : j <= i})
        IN  /\ pc = "done"
            /\ result = nil
            /\ Count(log, "cb") = k
            /\ Count(log, "poll") = k
            /\ \A j \in CallsOf("cb") : j < i => log[j].err = nil
            /\ EndsAt(i)

C3_Witness ==
    /\ StopCalls # {}
    /\ pc = "done"
    /\ Count(log, "cb") = 1
    /\ result = nil

\* C4: when the callback returns an error other than the stop sentinel,
\* Monitor returns that very error value, makes no further wait or dispatch
\* and the handle is released exactly once.
C4_CallbackErrorVerbatim ==
    \A i \in CallsOf("cb") \cap ErrorCalls :
        /\ pc = "done"
        /\ result = log[i].err
        /\ EndsAt(i)
        /\ closes = 1
        /\ fdOpen = "closed"

C4_Witness ==
    /\ pc = "done"
    /\ CallsOf("cb") \cap ErrorCalls # {}
    /\ result = errCallback

\* C5: when the Config fails validation Monitor returns the validation
\* error before any kernel interaction: no open, no write, no wait, no
\* callback.
C5_ValidationErrorBeforeKernel ==
    (log # <<>> /\ ~(WindowInRange(config) /\ StallWindowInRange(config))) =>
        /\ pc = "done"
        /\ log[1].op = "check"
        /\ log[1].err # nil
        /\ result = log[1].err
        /\ Len(log) = 1
        /\ fdOpen = "none"
        /\ openPath = <<>>
        /\ payload = <<>>
        /\ written = <<>>
        /\ pollRes = NoPoll

C5_Witness ==
    /\ pc = "done"
    /\ ~StallWindowInRange(config)
    /\ result.msg \in StallWindowMessages

\* C6: when the open fails Monitor returns the open error before any
\* control-line write, wait or callback, and does not retry the open.
C6_OpenErrorBeforeWrite ==
    \A i \in CallsOf("open") :
        /\ Count(log, "open") = 1
        /\ openPath = PressurePath(config)
        /\ openPath \notin KernelFiles => log[i].err # nil
        /\ log[i].err # nil =>
              /\ pc = "done"
              /\ result = log[i].err
              /\ Len(log) = i
              /\ Count(log, "write") = 0
              /\ Count(log, "poll") = 0
              /\ Count(log, "cb") = 0
              /\ payload = <<>>
              /\ written = <<>>
              /\ closes = 0

C6_Witness ==
    /\ pc = "done"
    /\ config.Resource = "gpu"
    /\ result = ENOENT
    /\ Count(log, "open") = 1

\* C7: when the control-line write fails or is short Monitor returns a write
\* error without entering the wait loop: no wait, no callback, no second
\* write, and the handle is released exactly once.
C7_WriteErrorBeforeLoop ==
    \A i \in CallsOf("write") :
        /\ Count(log, "write") = 1
        /\ (log[i].err # nil \/ written # payload) =>
              /\ pc = "done"
              /\ result = log[i].err
              /\ result # nil
              /\ EndsAt(i)
              /\ Count(log, "poll") = 0
              /\ Count(log, "cb") = 0
              /\ closes = 1
              /\ fdOpen = "closed"

C7_Witness ==
    /\ pc = "done"
    /\ result = ErrShortWrite
    /\ Len(written) < Len(payload)
    /\ closes = 1

\* C8: Check succeeds exactly when 500ms <= WindowDuration <= 10s and
\* 50ms <= StallWindowDuration <= 1s; no relation between the two is
\* required, so StallWindowDuration = 1s with WindowDuration = 500ms passes.
C8_CheckAcceptsExactlyInRange ==
    log # <<>> =>
        /\ log[1].op = "check"
        /\ (log[1].err = nil) <=>
              (WindowInRange(config) /\ StallWindowInRange(config))
        /\ (config.StallWindowDuration = Seconds(1)
              /\ config.WindowDuration = Millis(500)) => log[1].err = nil

C8_Witness ==
    /\ log # <<>>
    /\ log[1].err = nil
    /\ config.StallWindowDuration = Seconds(1)
    /\ config.WindowDuration = Millis(500)

\* C9: Check reports the first failing check in the order window minimum,
\* window maximum, stall window minimum, stall window maximum: a window
\* duration out of range gives a window-duration error whatever the stall
\* window duration is, and a stall-window-duration error is reported only
\* when the window duration is in range and the stall window duration is not.
C9_CheckOrder ==
    log # <<>> =>
        LET msg == log[1].err.msg
        IN  /\ ~AtLeastMs(config.WindowDuration, 500) =>
                  msg = "Minmum WindowDuration is 500ms"
            /\ ~AtMostMs(config.WindowDuration, 10000) =>
                  msg = "Maximum WindowDuration is 10s"
            /\ ~WindowInRange(config) => msg \in WindowMessages
            /\ (msg \in StallWindowMessages) <=>
                  (WindowInRange(config) /\ ~StallWindowInRange(config))
            /\ (WindowInRange(config)
                  /\ ~AtLeastMs(config.StallWindowDuration, 50)) =>
                  msg = "Minmum StallWindowDuration is 50ms"
            /\ (WindowInRange(config)
                  /\ ~AtMostMs(config.StallWindowDuration, 1000)) =>
                  msg = "Maximum StallWindowDuration is 1s"

C9_Witness ==
    /\ log # <<>>
    /\ ~WindowInRange(config)
    /\ ~StallWindowInRange(config)
    /\ log[1].err.msg = "Maximum WindowDuration is 10s"

\* C10: for a Config that passes validation the payload handed to the handle
\* is one line '<stall-type> <stall-window-us> <window-us>' followed by a
\* single NUL byte, each integer being the duration in nanoseconds divided by
\* 1000 and truncated, so within [50000, 1000000] and [500000, 10000000];
\* for "some", 100ms and 1s it is 'some 100000 1000000' and NUL.
C10_ControlLinePayload ==
    payload # <<>> =>
        LET line == SubSeq(payload, 1, Len(payload) - 1)
            f == Split(line, " ")
        IN  /\ Last(payload) = NUL
            /\ NUL \notin Range(line)
            /\ "\n" \notin Range(payload)
            /\ Len(f) = 3
            /\ f[1] = Bytes(config.Type)
            /\ IsDigits(f[2])
            /\ IsDigits(f[3])
            /\ IsTruncatedMicros(ParseNat(f[2]), config.StallWindowDuration)
            /\ IsTruncatedMicros(ParseNat(f[3]), config.WindowDuration)
            /\ ParseNat(f[2]) \in 50000..1000000
            /\ ParseNat(f[3]) \in 500000..10000000
            /\ (config.Type = "some"
                  /\ config.StallWindowDuration = Millis(100)
                  /\ config.WindowDuration = Seconds(1)) =>
                  payload = <<"s", "o", "m", "e", " ",
                              "1", "0", "0", "0", "0", "0", " ",
                              "1", "0", "0", "0", "0", "0", "0", NUL>>

C10_Witness ==
    /\ payload # <<>>
    /\ config.StallWindowDuration = Dur(0, 100000999)
    /\ config.WindowDuration = Dur(0, 500000999)
    /\ written = payload

\* C11: Explain is a pure function of the Config: it renders Type "some" as
\* "at least one", "full" as "all of" and any other Type as "UNKNOWN", calls
\* on equal Configs return equal strings, and a call changes no state.
C11_ExplainPure ==
    /\ [](\A i \in DOMAIN explains :
            /\ config.Type = "some" => explains[i][1] = "at least one"
            /\ config.Type = "full" => explains[i][1] = "all of"
            /\ config.Type \notin {"some", "full"} =>
                  explains[i][1] = "UNKNOWN"
            /\ explains[i][3] = config.Resource
            /\ \A j \in DOMAIN explains : explains[j] = explains[i])
    /\ [][explains' # explains => UNCHANGED <<local, fdTable, cur, peer>>]_vars

C11_Witness ==
    /\ Len(explains) = 2
    /\ config.Type = "full"
    /\ pc = "cb"
    /\ explains[2] =
          <<"all of", " of the tasks in the queue are waiting for ", "cpu",
            " for longer than ", "1", "0", "0", "m", "s",
            " measured within a ", "1", "s", " time window\n">>

\* the control line has been written: Monitor is in its loop or has left it
InLoop == \E i \in CallsOf("write") : log[i].err = nil

\* every wait and every callback so far returned nil
AllNil == \A i \in CallsOf("poll") \cup CallsOf("cb") : log[i].err = nil

\* C12: once in the wait loop, the callback returning the stop sentinel is
\* the only way Monitor returns nil, and there is no timeout or outside
\* cancellation: while every wait succeeds and the callback returns nil
\* Monitor is not in a terminal state and goes on alternating wait and
\* dispatch; with readiness events delivered, a callback that returns a
\* non-nil result makes Monitor return.
C12_OnlyCallbackEndsLoop ==
    /\ []((InLoop /\ pc = "done" /\ result = nil) => StopCalls # {})
    /\ []((InLoop /\ AllNil) => pc \in {"poll", "cb"})
    /\ [](\A i \in CallsOf("cb") : log[i].err # nil => pc = "done")
    /\ (pc = "poll" /\ Count(log, "poll") < MaxPolls) ~> (pc \in {"cb", "done"})
    /\ (pc = "cb") ~> (pc \in {"poll", "done"})
    /\ <>(\/ pc = "done"
          \/ pc = "poll" /\ AllNil /\ Count(log, "poll") = MaxPolls)

C12_Witness ==
    /\ pc = "poll"
    /\ InLoop
    /\ AllNil
    /\ Count(log, "poll") = MaxPolls
    /\ Count(log, "cb") = MaxPolls

\* C13: when a readiness wait fails Monitor returns that wait error, does
\* not invoke the callback for that wait, does not wait again, and releases
\* the handle.
C13_WaitErrorEndsSession ==
    \A i \in CallsOf("poll") :
        log[i].err # nil =>
            /\ pc = "done"
            /\ result = log[i].err
            /\ EndsAt(i)
            /\ Count(log, "cb") = Count(log, "poll") - 1
            /\ {j \in CallsOf("poll") : log[j].err # nil} = {i}
            /\ closes = 1
            /\ fdOpen = "closed"
            /\ fdNum \notin fdTable

C13_Witness ==
    /\ pc = "done"
    /\ result = EINTR
    /\ Count(log, "poll") = 2
    /\ Count(log, "cb") = 1
    /\ closes = 1

\* successful waits
OkPolls == {i \in CallsOf("poll") : log[i].err = nil}

\* C14: in the loop waits and dispatches alternate: the callback is invoked
\* once after each successful wait and never without one, so the number of
\* invocations is the number of successful waits or one less; a nil result
\* leads back to waiting on the same handle, with no second open and no
\* second control line.
C14_WaitDispatchAlternate ==
    /\ [](/\ Count(log, "cb") \in
               {Cardinality(OkPolls), Cardinality(OkPolls) - 1}
          /\ Count(log, "cb") = Cardinality(OkPolls) - 1 <=> pc = "cb"
          /\ \A i \in CallsOf("cb") : (i - 1) \in OkPolls
          /\ \A i \in OkPolls : i = Len(log) \/ log[i + 1].op = "cb"
          /\ \A i \in CallsOf("cb") :
                log[i].err = nil =>
                    \/ i = Len(log) /\ pc = "poll" /\ fdOpen = "open"
                          /\ fdNum \in fdTable
                    \/ i < Len(log) /\ log[i + 1].op = "poll"
          /\ InLoop => Count(log, "open") = 1 /\ Count(log, "write") = 1)
    /\ [][(pc = "cb" /\ pc' = "poll") =>
             UNCHANGED <<fdNum, fdTable, fdOpen, openPath, payload, written>>
         ]_vars

C14_Witness ==
    /\ pc = "poll"
    /\ Count(log, "cb") = 2
    /\ Cardinality(OkPolls) = 2
    /\ fdOpen = "open"
    /\ Count(log, "write") = 1

\* C15: one Monitor call goes through validate, open, write, first wait,
\* first callback in that order, each of the first three at most once; the
\* loop is entered only after a successful write, no step is repeated after
\* an error, and once Monitor has returned it makes no further call.
C15_StepOrder ==
    /\ [](/\ \A i \in DOMAIN log :
                /\ i = 1 => log[i].op = "check"
                /\ i = 2 => log[i].op = "open"
                /\ i = 3 => log[i].op = "write"
                /\ i > 3 => log[i].op \in {"poll", "cb", "close"}
                /\ (i > 3 /\ log[i].op = "poll") =>
                      log[i - 1].op \in {"write", "cb"}
                /\ i < Len(log) =>
                      \/ log[i].err = nil
                      \/ i = Len(log) - 1 /\ log[Len(log)].op = "close"
                /\ log[i].op = "close" => i = Len(log) /\ pc = "done"
          /\ CallsOf("poll") # {} => log[3] = Call("write", nil)
          /\ (log # <<>> /\ Last(log).err # nil) => pc = "done"
          /\ pc = "open" <=> (Len(log) = 1 /\ log[1].err = nil)
          /\ pc = "write" <=> (Len(log) = 2 /\ log[2].err = nil))
    /\ [][pc = "done" => UNCHANGED <<local, fdTable>>]_vars

C15_Witness ==
    /\ pc = "done"
    /\ Len(log) = 6
    /\ log[4].op = "poll"
    /\ log[5].op = "cb"
    /\ log[6].op = "close"

\* C17: the stop sentinel is recognised by identity with ErrStopMonitoring:
\* a callback error that is another value, one wrapping the sentinel or one
\* with its message, is a non-stop error, returned by Monitor as an error.
C17_SentinelByIdentity ==
    /\ \A i \in CallsOf("cb") :
          log[i].err \in {errSameMessage, errWrapsStop} =>
              /\ pc = "done"
              /\ result = log[i].err
              /\ result # nil
              /\ result.id # ErrStopMonitoring.id
    /\ (pc = "done" /\ result = nil) =>
          /\ Last(SubSeq(log, 1, Len(log) - 1)).op = "cb"
          /\ Last(SubSeq(log, 1, Len(log) - 1)).err.id = "ErrStopMonitoring"

C17_Witness ==
    /\ pc = "done"
    /\ impl = "part_000"
    /\ result = errWrapsStop

\* C18: the callback is dispatched after every wait that returns without an
\* error, whatever it reports: neither the count of ready descriptors nor the
\* event flags are looked at, so a wait reporting an error condition on the
\* handle, or no event at all, is followed by one dispatch, and the loop goes
\* on.
C18_DispatchWhateverPollReports ==
    /\ [](\A i \in OkPolls :
            \/ i = Len(log) /\ pc = "cb"
            \/ i < Len(log) /\ log[i + 1].op = "cb")
    /\ [][(pc = "poll" /\ pollRes' # pollRes /\ pollRes'.err = nil) =>
             pc' = "cb"]_vars
    /\ [][(pc = "poll" /\ pc' = "cb") =>
             /\ pollRes' \in PollOutcomes
             /\ pollRes'.err = nil]_vars
    /\ [][(pc = "cb" /\ log' = Append(log, Call("cb", nil))) =>
             pc' = "poll" /\ pollRes' = pollRes]_vars

C18_Witness ==
    /\ pc = "poll"
    /\ Last(log) = Call("cb", nil)
    /\ pollRes.revents = "POLLERR"
    /\ Count(log, "cb") = 1

\* C19: the outcome of Check depends on the two durations only: Configs that
\* differ in Resource and Type alone get the same result, so one with
\* in-range durations and a Type outside {"some", "full"} or a Resource
\* outside {"cpu", "io", "memory"} passes, and Monitor opens the path built
\* from that Resource and writes that Type as it is in the control line.
C19_CheckIgnoresResourceAndType ==
    log # <<>> =>
        /\ \A r \in Resources, t \in StallTypes :
              Check([config EXCEPT !.Resource = r, !.Type = t]) = log[1].err
        /\ (WindowInRange(config) /\ StallWindowInRange(config)) =>
              /\ log[1].err = nil
              /\ Len(log) = 1 => pc = "open"
              /\ Len(log) > 1 =>
                    /\ log[2].op = "open"
                    /\ openPath = <<"/proc/pressure/", config.Resource>>
              /\ (Len(log) = 2 /\ log[2].err = nil) => pc = "write"
              /\ Len(log) > 2 =>
                    /\ log[3].op = "write"
                    /\ Split(payload, " ")[1] = Bytes(config.Type)

C19_Witness ==
    /\ config.Resource = "irq"
    /\ config.Type = "half"
    /\ openPath = <<"/proc/pressure/", "irq">>
    /\ Len(payload) > 5
    /\ SubSeq(payload, 1, 5) = <<"h", "a", "l", "f", " ">>
    /\ written = payload

\* the two sessions of the process
Sessions == {Here, peer}

\* C16: two Monitor sessions running concurrently, on the same or on
\* different resources, share no mutable state: each has its own handle, and
\* a step of one session, its return, error or close included, neither
\* closes the other session's handle nor changes anything of the other
\* session's calls and result.
C16_SessionsIndependent ==
    /\ [](/\ \A s \in Sessions : s.fdOpen = "open" => s.fdNum \in fdTable
          /\ (Here.fdOpen = "open" /\ peer.fdOpen = "open") =>
                Here.fdNum # peer.fdNum
          /\ fdTable = {s.fdNum : s \in {t \in Sessions : t.fdOpen = "open"}}
          /\ \A s \in Sessions :
                /\ s.closes = Count(s.log, "close")
                /\ s.closes = 1 <=>
                      (s.pc = "done" /\ Count(s.log, "write") = 1))
    /\ [][/\ cur' = cur => peer' = peer
          /\ cur' # cur => (peer' = Here /\ Here' = peer
                              /\ fdTable' = fdTable)]_vars

C16_Witness ==
    /\ pc = "done"
    /\ closes = 1
    /\ config.Resource = peer.config.Resource
    /\ peer.pc = "poll"
    /\ peer.fdOpen = "open"
    /\ peer.fdNum = 3
    /\ fdNum = 4
    /\ Count(peer.log, "cb") = 1

====
